---- MODULE Spec2Model ----
(***************************************************************************)
(* Model of the image analyzer (app/analyzer.py, app/main.py).             *)
(*                                                                         *)
(* analyze_image is a pure function of the decoded image size and of the   *)
(* quantities PIL / numpy / scipy compute from the pixels (edge variance,  *)
(* mean, standard deviation, dust-spot count, mean local standard          *)
(* deviation).  Those quantities are inputs of the model.                  *)
(*                                                                         *)
(* Number representation                                                   *)
(*   - values rounded to 2 decimals are integers counting hundredths       *)
(*   - aspect_ratio_decimal (rounded to 4 decimals) counts 1/10000         *)
(*   - the float width / height is the rational [num, den] together with   *)
(*     the IEEE-754 double rounding error of that division (FloatErr),     *)
(*     which is what decides exact ties in round() and in min().           *)
(***************************************************************************)
EXTENDS Integers, Naturals, Sequences, FiniteSets, TLC

VARIABLES
    width, height,          \* image.size
    blur_variance,          \* round(Stat(FIND_EDGES).var, 2)   [hundredths]
    brightness,             \* round(stat.mean, 2)              [hundredths]
    contrast,               \* round(stat.stddev, 2)            [hundredths]
    spots_count,            \* np.sum(|gray - median| > 20)
    local_std_mean,         \* np.mean(generic_filter(std, 7))  [hundredths]
    pc,                     \* "received" | "done" | "error"
    simplified,             \* local `simplified` (a Fraction) of analyze_image
    closest_ratio,          \* local `closest_ratio` of analyze_image
    result,                 \* the response body
    crop_in,                \* arguments of a direct crop_fit_size call
    crop_out,               \* its return value
    crop_pc,                \* "call" | "returned"
    phase,                  \* per request: position of its coroutine
    loop,                   \* request whose coroutine runs on the event loop, 0 = none
    status                  \* per request: status code of its response, 0 = none yet

vars == <<width, height, blur_variance, brightness, contrast, spots_count,
          local_std_mean, pc, simplified, closest_ratio, result,
          crop_in, crop_out, crop_pc, phase, loop, status>>

analysisVars == <<width, height, blur_variance, brightness, contrast, spots_count,
                  local_std_mean, pc, simplified, closest_ratio, result>>

cropVars == <<crop_in, crop_out, crop_pc>>

serverVars == <<phase, loop, status>>

----------------------------------------------------------------------------
(* Bounds of the model *)

MaxWidth == 300

MaxHeight == 32

Eps == 1

NumRequests == 3

MaxTallWidth == 6

MaxOver == 2

MaxMultiple == 2

----------------------------------------------------------------------------
(* Program constants *)

DPI == 300

MAX_DENOMINATOR == 1000000

DUST_SPOT_THRESHOLD == 10

blur_range == <<1000, 6000>>

noise_range == <<0, 50>>

brightness_range == <<100, 180>>

contrast_range == <<30, 80>>

common_aspect_ratios ==
    << <<1, 1>>, <<3, 2>>, <<4, 3>>, <<5, 4>>, <<16, 9>>,
       <<7, 5>>, <<5, 3>>, <<3, 1>>, <<2, 1>> >>

----------------------------------------------------------------------------
(* Arithmetic helpers *)

Abs(x) == IF x < 0 THEN -x ELSE x

RECURSIVE Gcd(_, _)
Gcd(a, b) == IF b = 0 THEN Abs(a) ELSE Gcd(b, a % b)

RECURSIVE Pow2(_)
Pow2(e) == IF e = 0 THEN 1 ELSE 2 * Pow2(e - 1)

SqMod(x, d) == (x * x) % d

\* 2^k modulo d, by repeated squaring
RECURSIVE PowMod2(_, _)
PowMod2(k, d) ==
    IF k = 0 THEN 1 % d
    ELSE IF k % 2 = 0 THEN SqMod(PowMod2(k \div 2, d), d)
    ELSE (2 * PowMod2(k - 1, d)) % d

\* a/b <= c/d for a, c >= 0 and b, d > 0: the exact comparison of two Fractions,
\* by integer parts and then the reciprocals of the fractional parts
RECURSIVE RatLeq(_, _, _, _)
RatLeq(a, b, c, d) ==
    IF a \div b # c \div d THEN a \div b < c \div d
    ELSE IF a % b = 0 THEN TRUE
    ELSE IF c % d = 0 THEN FALSE
    ELSE RatLeq(d, c % d, b, a % b)

\* Python true division n / d of two ints: ZeroDivisionError when d = 0
\* (ok = FALSE), otherwise the double nearest to the rational num/den.
Quot(n, d) == [ok |-> d # 0, num |-> n, den |-> d]

\* b with 2^b <= n/d < 2^(b+1), for n, d > 0
RECURSIVE Binade(_, _)
Binade(n, d) ==
    IF n >= 2 * d THEN 1 + Binade(n, 2 * d)
    ELSE IF n < d THEN Binade(2 * n, d) - 1
    ELSE 0

\* Rounding error of the double n / d (n, d > 0):
\*   float(n / d) - n/d  =  2^(b - 52) * c / d
\* A double has 53 significant bits, so float(n/d) = RN(n * 2^(52-b) / d) / 2^(52-b);
\* the remainder of n * 2^(52-b) modulo d gives the distance to the nearest
\* integer.  (2R = d would need n/d to have 54 significant bits.)
\* the error record for binade b and remainder R of n * 2^(52-b) modulo d
Centered(b, R, d) == [b |-> b, c |-> IF 2 * R < d THEN -R ELSE d - R, d |-> d]

ErrInBinade(b, n, d) == Centered(b, ((n % d) * PowMod2(52 - b, d)) % d, d)

FloatErr(n, d) == ErrInBinade(Binade(n, d), n, d)

\* the integer fl or fl + 1 on a decimal tie of n/d, from the sign of the
\* rounding error e of the double; half to even when the double is exact
TieRound(fl, e) ==
    IF e.c > 0 THEN fl + 1
    ELSE IF e.c < 0 THEN fl
    ELSE IF fl % 2 = 0 THEN fl ELSE fl + 1

\* rounding of fl + rem/d to an integer
RoundAt(fl, rem, n, d) ==
    IF 2 * rem < d THEN fl
    ELSE IF 2 * rem > d THEN fl + 1
    ELSE TieRound(fl, FloatErr(n, d))

\* variant of RoundFloat: the digits beyond ndigits are dropped
RoundFloat_truncating(n, d, S) == (n * S) \div d

\* round(n / d, ndigits) of a float, as a count of 1/S where S = 10^ndigits.
\* Python rounds the exact value of the double correctly (half to even), so
\* an exact decimal tie of the rational n/d is decided by the rounding error
\* of the division.
RoundFloat(n, d, S) == RoundAt((n * S) \div d, (n * S) % d, n, d)

\* f"{a}:{b}"
RatioStr(r) == ToString(r[1]) \o ":" \o ToString(r[2])

----------------------------------------------------------------------------
(* Geometry *)

aspect_ratio(w, h) == IF h # 0 THEN Quot(w, h) ELSE Quot(0, 1)

\* fractions.Fraction(n, d): ZeroDivisionError when d = 0, else lowest terms
Fraction(n, d) ==
    IF d = 0 THEN [ok |-> FALSE, num |-> 0, den |-> 0]
    ELSE LET g == Gcd(n, d) IN [ok |-> TRUE, num |-> n \div g, den |-> d \div g]

\* the convergent loop of Fraction.limit_denominator
RECURSIVE Convergents(_, _, _, _, _, _, _)
Convergents(p0, q0, p1, q1, n, d, maxd) ==
    LET a  == n \div d
        q2 == q0 + a * q1
    IN  IF q2 > maxd
        THEN [p0 |-> p0, q0 |-> q0, p1 |-> p1, q1 |-> q1]
        ELSE Convergents(p1, q1, p0 + a * p1, q2, d, n - a * d, maxd)

\* |b - f| times the denominator of f
OffBy(b, f) == Abs(b.num * f.den - f.num * b.den)

\* bound1 = (p0 + k p1) / (q0 + k q1) for the largest k within the limit
Bound1(c, maxd) ==
    Fraction(c.p0 + ((maxd - c.q0) \div c.q1) * c.p1,
             c.q0 + ((maxd - c.q0) \div c.q1) * c.q1)

\* bound2 = p1 / q1, the last convergent within the limit
Bound2(c) == Fraction(c.p1, c.q1)

\* abs(bound2 - self) <= abs(bound1 - self) ? bound2 : bound1
CloserBound(bound1, bound2, f) ==
    IF RatLeq(OffBy(bound2, f), bound2.den, OffBy(bound1, f), bound1.den)
    THEN bound2
    ELSE bound1

\* the two candidates of limit_denominator from the state of the loop
Candidates(c, f, maxd) == CloserBound(Bound1(c, maxd), Bound2(c), f)

\* Fraction.limit_denominator(max_denominator)
limit_denominator(f, maxd) ==
    IF f.den <= maxd THEN f
    ELSE Candidates(Convergents(0, 1, 1, 0, f.num, f.den, maxd), f, maxd)

\* exact distance |r[1]/r[2] - t.num/t.den|, times the denominators of r, s and t
Dist(r, s, t) == Abs(r[1] * t.den - t.num * r[2]) * s[2]

Min3(x, y, z) == IF x <= y /\ x <= z THEN x ELSE IF y <= z THEN y ELSE z

\* 2 e_t - e_L - e_U, times 2^(52 - m) and the three denominators
TieValue(et, eL, eU, m) ==
    2 * Pow2(et.b - m) * et.c * eL.d * eU.d
    - Pow2(eL.b - m) * eL.c * et.d * eU.d
    - Pow2(eU.b - m) * eU.c * et.d * eL.d

TieSign(et, eL, eU) == TieValue(et, eL, eU, Min3(et.b, eL.b, eU.b))

\* key(r) < key(s) for key = lambda r: abs(r[0] / r[1] - target), target = t.num/t.den.
\* Different exact distances differ by far more than the rounding of the
\* doubles.  Equal exact distances: r and s lie on opposite sides of the
\* target, the two float subtractions are exact, and
\*   key(L) - key(U) = 2 e_t - e_L - e_U
\* for the lower ratio L, the upper ratio U and the rounding errors e of the
\* three divisions.
KeyLess(r, s, t) ==
    IF Dist(r, s, t) # Dist(s, r, t) THEN Dist(r, s, t) < Dist(s, r, t)
    ELSE IF r[1] * s[2] = s[1] * r[2] THEN FALSE
    ELSE IF r[1] * s[2] < s[1] * r[2]
         THEN TieSign(FloatErr(t.num, t.den), FloatErr(r[1], r[2]), FloatErr(s[1], s[2])) < 0
         ELSE TieSign(FloatErr(t.num, t.den), FloatErr(s[1], s[2]), FloatErr(r[1], r[2])) > 0

\* min(common_aspect_ratios, key=...): the index of the first element whose
\* key no other key is below
MinIndex(t) ==
    CHOOSE i \in 1 .. Len(common_aspect_ratios) :
        /\ \A j \in 1 .. Len(common_aspect_ratios) :
              ~KeyLess(common_aspect_ratios[j], common_aspect_ratios[i], t)
        /\ \A k \in 1 .. (i - 1) :
              \E j \in 1 .. Len(common_aspect_ratios) :
                  KeyLess(common_aspect_ratios[j], common_aspect_ratios[k], t)

closest_aspect_ratio(target) == common_aspect_ratios[MinIndex(target)]

\* variant of crop_fit_size: the comparison is reversed
crop_fit_size_reversed(w, h, ratio) ==
    IF ratio[1] = 0 \/ ratio[2] = 0
    THEN [ok |-> FALSE, width |-> 0, height |-> 0]
    ELSE IF h * ratio[1] >= w * ratio[2]
         THEN [ok |-> TRUE, width |-> (h * ratio[1]) \div ratio[2], height |-> h]
         ELSE [ok |-> TRUE, width |-> w, height |-> (w * ratio[2]) \div ratio[1]]

\* variant of crop_fit_size: the target width is rounded up
crop_fit_size_ceil(w, h, ratio) ==
    IF ratio[1] = 0 \/ ratio[2] = 0
    THEN [ok |-> FALSE, width |-> 0, height |-> 0]
    ELSE IF h * ratio[1] <= w * ratio[2]
         THEN [ok |-> TRUE, width |-> (h * ratio[1] + ratio[2] - 1) \div ratio[2],
               height |-> h]
         ELSE [ok |-> TRUE, width |-> w, height |-> (w * ratio[2]) \div ratio[1]]

\* crop_fit_size(w, h, ratio); int() truncates the non-negative float
crop_fit_size(w, h, ratio) ==
    IF ratio[1] = 0 \/ ratio[2] = 0
    THEN [ok |-> FALSE, width |-> 0, height |-> 0]
    ELSE IF h * ratio[1] <= w * ratio[2]
         THEN [ok |-> TRUE, width |-> (h * ratio[1]) \div ratio[2], height |-> h]
         ELSE [ok |-> TRUE, width |-> w, height |-> (w * ratio[2]) \div ratio[1]]

----------------------------------------------------------------------------
(* Print size *)

\* round(px / 300, 2), in hundredths of an inch
print_size(px) == RoundFloat(px, DPI, 100)

\* math.floor of a value held in hundredths
floor_hundredths(x) == x \div 100

----------------------------------------------------------------------------
(* Scoring and flaw detection; metric values are in hundredths *)

\* variant of score_status: the bounds of the range are excluded
score_status_exclusive(value, value_range) ==
    LET low  == value_range[1]
        high == value_range[2]
    IN  IF value <= low * 100 THEN "Low"
        ELSE IF value >= high * 100 THEN "High"
        ELSE "Good"

score_status(value, value_range) ==
    LET low  == value_range[1]
        high == value_range[2]
    IN  IF value < low * 100 THEN "Low"
        ELSE IF value > high * 100 THEN "High"
        ELSE "Good"

FlawBlur == "Image appears blurry or out of focus."

FlawNoise == "Image has high noise/grain, which may affect print quality."

FlawDark == "Image appears underexposed or too dark."

FlawBright == "Image appears overexposed or too bright."

FlawLowContrast == "Image has low contrast and may appear flat."

FlawHighContrast == "Image has very high contrast; some details may be clipped."

FlawDust == "Possible dust spots detected on the image."

FlawNoisePattern == "Noise pattern detected; image may have grainy or patterned noise."

\* flaws.append(text) under `if cond:`
AppendIf(flaws, cond, text) == IF cond THEN Append(flaws, text) ELSE flaws

\* variant of detect_flaws: the dust rule fires at the threshold itself
detect_flaws_dust_at_threshold(image_gray, blur, noise, bright, contr) ==
    LET f1 == AppendIf(<< >>, blur < blur_range[1] * 100, FlawBlur)
        f2 == AppendIf(f1, noise > noise_range[2] * 100, FlawNoise)
        f3 == AppendIf(f2, bright < brightness_range[1] * 100, FlawDark)
        f4 == AppendIf(f3, bright > brightness_range[2] * 100, FlawBright)
        f5 == AppendIf(f4, contr < contrast_range[1] * 100, FlawLowContrast)
        f6 == AppendIf(f5, contr > contrast_range[2] * 100, FlawHighContrast)
        f7 == AppendIf(f6, image_gray.spots_count >= DUST_SPOT_THRESHOLD, FlawDust)
        f8 == AppendIf(f7, noise > noise_range[2] * 100
                           /\ image_gray.local_std_mean > 20 * 100,
                       FlawNoisePattern)
    IN  f8

\* detect_flaws; image_gray stands for what the two pixel passes return:
\* spots_count and local_std_mean
detect_flaws(image_gray, blur, noise, bright, contr) ==
    LET BLUR_THRESHOLD_LOW   == blur_range[1]
        NOISE_THRESHOLD_HIGH == noise_range[2]
        BRIGHTNESS_LOW       == brightness_range[1]
        BRIGHTNESS_HIGH      == brightness_range[2]
        CONTRAST_LOW         == contrast_range[1]
        CONTRAST_HIGH        == contrast_range[2]
        f0 == << >>
        f1 == AppendIf(f0, blur < BLUR_THRESHOLD_LOW * 100, FlawBlur)
        f2 == AppendIf(f1, noise > NOISE_THRESHOLD_HIGH * 100, FlawNoise)
        f3 == AppendIf(f2, bright < BRIGHTNESS_LOW * 100, FlawDark)
        f4 == AppendIf(f3, bright > BRIGHTNESS_HIGH * 100, FlawBright)
        f5 == AppendIf(f4, contr < CONTRAST_LOW * 100, FlawLowContrast)
        f6 == AppendIf(f5, contr > CONTRAST_HIGH * 100, FlawHighContrast)
        f7 == AppendIf(f6, image_gray.spots_count > DUST_SPOT_THRESHOLD, FlawDust)
        f8 == AppendIf(f7, noise > NOISE_THRESHOLD_HIGH * 100
                           /\ image_gray.local_std_mean > 20 * 100,
                       FlawNoisePattern)
    IN  f8

\* one entry of the report for a metric
metric_entry(value, value_range) ==
    [value |-> value, range |-> value_range, status |-> score_status(value, value_range)]

----------------------------------------------------------------------------
(* analyze_image, called by the /analyze/ handler of main.py *)

\* `simplified` before it is assigned
NoFraction == [ok |-> FALSE, num |-> 0, den |-> 0]

\* a ZeroDivisionError of an int / int division leaves analyze_image with the
\* locals assigned so far; the handler answers {"error": str(e)}, and str(e)
\* of that exception is "division by zero"
Raised(simp, closest) ==
    [ok |-> FALSE, simplified |-> simp, closest_ratio |-> closest,
     body |-> [error |-> "division by zero"]]

\* variant of simplify: the call passes a limit of 1000
simplify_limit_1000(frac) == IF frac.ok THEN limit_denominator(frac, 1000) ELSE frac

\* try: Fraction(width, height).limit_denominator()
simplify(frac) == IF frac.ok THEN limit_denominator(frac, MAX_DENOMINATOR) ELSE frac

\* f"{numerator}:{denominator}", or "Undefined" on ZeroDivisionError
simple_str(simp) == IF simp.ok THEN RatioStr(<<simp.num, simp.den>>) ELSE "Undefined"

print_entry(w_in, h_in) == [width |-> w_in, height |-> h_in, dpi |-> DPI]

\* the result dictionary
report(w, h, ar, simp, mpw, mph, closest_str, crop, blur, noise, bright, contr, flaws) ==
    [width_px |-> w,
     height_px |-> h,
     aspect_ratio_decimal |-> RoundFloat(ar.num, ar.den, 10000),
     aspect_ratio_simple |-> simple_str(simp),
     max_print_size_inch |->
        [precise |-> print_entry(mpw, mph),
         rounded_down |-> print_entry(floor_hundredths(mpw), floor_hundredths(mph))],
     blur_variance |-> metric_entry(blur, blur_range),
     noise_level |-> metric_entry(noise, noise_range),
     brightness |-> metric_entry(bright, brightness_range),
     contrast |-> metric_entry(contr, contrast_range),
     closest_common_aspect_ratio |-> closest_str,
     crop_suggestion |->
        [recommended_crop_size_px |-> [width |-> crop.width, height |-> crop.height],
         max_print_size_inch |->
            print_entry(print_size(crop.width), print_size(crop.height)),
         prompt |-> "Would you like to crop to " \o closest_str \o "?"],
     flaws_detected |-> flaws,
     message |-> "Analysis complete"]

\* analyze_image from the crop suggestion on (lines 82 to 248)
after_crop(w, h, ar, simp, closest, crop, blur, noise, bright, contr, image_gray) ==
    IF ~crop.ok THEN Raised(simp, closest)
    ELSE [ok |-> TRUE, simplified |-> simp, closest_ratio |-> closest,
          body |-> report(w, h, ar, simp, print_size(w), print_size(h),
                          RatioStr(closest), crop, blur, noise, bright, contr,
                          detect_flaws(image_gray, blur, noise, bright, contr))]

\* analyze_image from the closest-ratio lookup on (lines 71 to 248)
after_closest(w, h, ar, simp, closest, blur, noise, bright, contr, image_gray) ==
    after_crop(w, h, ar, simp, closest, crop_fit_size(w, h, closest),
               blur, noise, bright, contr, image_gray)

\* analyze_image after the first division (lines 16 to 248); noise_level = contrast
after_aspect_ratio(w, h, ar, blur, bright, contr, image_gray) ==
    IF ~ar.ok THEN Raised(NoFraction, <<0, 0>>)
    ELSE after_closest(w, h, ar, simplify(Fraction(w, h)), closest_aspect_ratio(ar),
                       blur, contr, bright, contr, image_gray)

\* the body of analyze_image after the image has been decoded; ok = FALSE
\* when an exception leaves the function
analysis(w, h, blur, bright, contr, spots, lsm) ==
    after_aspect_ratio(w, h, aspect_ratio(w, h), blur, bright, contr,
                       [spots_count |-> spots, local_std_mean |-> lsm])

\* the handler's response: status 200 with the report, or status 500 with
\* the error body when analyze_image raised
respond(r) ==
    /\ pc' = IF r.ok THEN "done" ELSE "error"
    /\ simplified' = r.simplified
    /\ closest_ratio' = r.closest_ratio
    /\ result' = r.body

\* POST /analyze/ for one request
analyze_image ==
    /\ pc = "received"
    /\ respond(analysis(width, height, blur_variance, brightness, contrast,
                        spots_count, local_std_mean))
    /\ UNCHANGED <<width, height, blur_variance, brightness, contrast,
                   spots_count, local_std_mean>>
    /\ UNCHANGED cropVars
    /\ UNCHANGED serverVars

\* a direct call of crop_fit_size(w, h, ratio)
CropFit ==
    /\ crop_pc = "call"
    /\ crop_out' = crop_fit_size(crop_in.w, crop_in.h, crop_in.ratio)
    /\ crop_pc' = "returned"
    /\ UNCHANGED crop_in
    /\ UNCHANGED analysisVars
    /\ UNCHANGED serverVars

----------------------------------------------------------------------------
(* Inputs *)

Near(c) == (c - Eps) .. (c + Eps)

Catalog == {common_aspect_ratios[i] : i \in 1 .. Len(common_aspect_ratios)}

NoCrop == [ok |-> FALSE, width |-> 0, height |-> 0]

Requests == 1 .. NumRequests

IdleAnalysis ==
    /\ pc = "received"
    /\ simplified = NoFraction
    /\ closest_ratio = <<0, 0>>
    /\ result = [message |-> "pending"]

IdleCrop ==
    /\ crop_in = [w |-> 1, h |-> 1, ratio |-> <<1, 1>>]
    /\ crop_out = NoCrop
    /\ crop_pc = "returned"

IdleServer ==
    /\ phase = [r \in Requests |-> "responded"]
    /\ loop = 0
    /\ status = [r \in Requests |-> 200]

\* every image size within the bounds; a uniform grey image (value 140)
InitGeometry ==
    /\ width \in 1 .. MaxWidth
    /\ height \in 1 .. MaxHeight
    /\ blur_variance = 0
    /\ brightness = 14000
    /\ contrast = 0
    /\ spots_count = 0
    /\ local_std_mean = 0
    /\ IdleAnalysis
    /\ IdleCrop
    /\ IdleServer

\* a 3000 x 2000 image with every metric within Eps of each threshold
InitQuality ==
    /\ width = 3000
    /\ height = 2000
    /\ blur_variance \in UNION {Near(blur_range[i] * 100) : i \in 1 .. 2}
    /\ brightness \in UNION {Near(brightness_range[i] * 100) : i \in 1 .. 2}
    /\ contrast \in {c \in UNION ({Near(contrast_range[i] * 100) : i \in 1 .. 2}
                                  \cup {Near(noise_range[i] * 100) : i \in 1 .. 2}) :
                        c >= 0}
    /\ spots_count \in {n \in Near(DUST_SPOT_THRESHOLD) : n >= 0}
    /\ local_std_mean \in {m \in Near(20 * 100) : m >= 0}
    /\ IdleAnalysis
    /\ IdleCrop
    /\ IdleServer

\* heights within MaxOver of the first multiples of the maximum denominator
TallHeights ==
    {k * MAX_DENOMINATOR + j : k \in 1 .. MaxMultiple, j \in (0 - MaxOver) .. MaxOver}

\* narrow and very tall uniform grey images, e.g. 3 x 1000001 pixels
InitTall ==
    /\ width \in 1 .. MaxTallWidth
    /\ height \in TallHeights
    /\ blur_variance = 0
    /\ brightness = 14000
    /\ contrast = 0
    /\ spots_count = 0
    /\ local_std_mean = 0
    /\ IdleAnalysis
    /\ IdleCrop
    /\ IdleServer

\* every call crop_fit_size(w, h, ratio) with w > 0, h >= 0 and a catalog ratio
InitCrop ==
    /\ crop_in \in [w : 1 .. 2 * MaxHeight, h : 0 .. MaxHeight, ratio : Catalog]
    /\ crop_out = NoCrop
    /\ crop_pc = "call"
    /\ width = 1
    /\ height = 1
    /\ blur_variance = 0
    /\ brightness = 0
    /\ contrast = 0
    /\ spots_count = 0
    /\ local_std_mean = 0
    /\ IdleAnalysis
    /\ IdleServer

Spec == InitGeometry /\ [][analyze_image]_vars

SpecQuality == InitQuality /\ [][analyze_image]_vars

SpecTall == InitTall /\ [][analyze_image]_vars

SpecCrop == InitCrop /\ [][CropFit]_vars

----------------------------------------------------------------------------
(* The /analyze/ handler on the asyncio event loop (main.py).              *)
(* `analyze` and `analyze_image` are coroutines; the only await of         *)
(* analyze_image is `await file.read()`.  Everything after it runs         *)
(* synchronously in the coroutine, on the thread of the event loop.        *)

\* the synchronous sections of analyze_image after the read, in order
Stages == <<"decode", "geometry", "metrics", "color", "flaws", "assemble">>

Computing(r) == \E i \in 1 .. Len(Stages) : phase[r] = Stages[i]

StageIndex(r) == CHOOSE i \in 1 .. Len(Stages) : phase[r] = Stages[i]

\* the event loop can run a task only when no coroutine is running on it
LoopFree == loop = 0

\* the loop starts the handler of a queued request; it runs to the await
Start(r) ==
    /\ LoopFree
    /\ phase[r] = "queued"
    /\ phase' = [phase EXCEPT ![r] = "reading"]
    /\ UNCHANGED loop
    /\ UNCHANGED status
    /\ UNCHANGED analysisVars
    /\ UNCHANGED cropVars

\* the upload has been read: the coroutine becomes runnable
ReadComplete(r) ==
    /\ phase[r] = "reading"
    /\ phase' = [phase EXCEPT ![r] = "ready"]
    /\ UNCHANGED loop
    /\ UNCHANGED status
    /\ UNCHANGED analysisVars
    /\ UNCHANGED cropVars

\* the loop resumes the coroutine after `await file.read()`
Resume(r) ==
    /\ LoopFree
    /\ phase[r] = "ready"
    /\ phase' = [phase EXCEPT ![r] = Stages[1]]
    /\ loop' = r
    /\ UNCHANGED status
    /\ UNCHANGED analysisVars
    /\ UNCHANGED cropVars

\* the coroutine goes on to its next section without yielding
Compute(r) ==
    /\ loop = r
    /\ Computing(r)
    /\ StageIndex(r) < Len(Stages)
    /\ phase' = [phase EXCEPT ![r] = Stages[StageIndex(r) + 1]]
    /\ UNCHANGED loop
    /\ UNCHANGED status
    /\ UNCHANGED analysisVars
    /\ UNCHANGED cropVars

\* analyze_image returns, the handler builds the JSONResponse and finishes
Respond(r) ==
    /\ loop = r
    /\ phase[r] = Stages[Len(Stages)]
    /\ phase' = [phase EXCEPT ![r] = "responded"]
    /\ loop' = 0
    /\ status' = [status EXCEPT ![r] = 200]
    /\ UNCHANGED analysisVars
    /\ UNCHANGED cropVars

\* the sections in which a call on the uploaded bytes can raise with no
\* handler inside analyze_image: Image.open on bytes that are not an image,
\* image.convert on an image whose pixel data is truncated.  (The try blocks
\* of the colour section catch their own exceptions.)
RaisingStages == {"decode", "metrics"}

\* analyze_image raises in its current section: the exception reaches the
\* except branch of the handler, which answers {"error": str(e)} with
\* status 500; the coroutine finishes without running the later sections
RespondError(r) ==
    /\ loop = r
    /\ phase[r] \in RaisingStages
    /\ phase' = [phase EXCEPT ![r] = "responded"]
    /\ loop' = 0
    /\ status' = [status EXCEPT ![r] = 500]
    /\ UNCHANGED analysisVars
    /\ UNCHANGED cropVars

InitServer ==
    /\ phase = [r \in Requests |-> "queued"]
    /\ loop = 0
    /\ status = [r \in Requests |-> 0]
    /\ width = 1
    /\ height = 1
    /\ blur_variance = 0
    /\ brightness = 0
    /\ contrast = 0
    /\ spots_count = 0
    /\ local_std_mean = 0
    /\ IdleAnalysis
    /\ IdleCrop

NextServer ==
    \E r \in Requests :
        \/ Start(r)
        \/ ReadComplete(r)
        \/ Resume(r)
        \/ Compute(r)
        \/ Respond(r)
        \/ RespondError(r)

SpecServer == InitServer /\ [][NextServer]_vars

----------------------------------------------------------------------------
(* Properties *)

Done == pc = "done"

Returned == crop_pc = "returned"

\* C1: for w > 0, h >= 0 and every catalog ratio, crop_fit_size returns
\* (cw, ch) with cw <= w, ch <= h and (cw = w or ch = h).
CropWithinSource ==
    (Returned /\ crop_in.w > 0) =>
        /\ crop_out.ok
        /\ crop_out.width <= crop_in.w
        /\ crop_out.height <= crop_in.h
        /\ (crop_out.width = crop_in.w \/ crop_out.height = crop_in.h)

\* a crop that narrows a wider image
CropWithinSourceWitness ==
    /\ Returned
    /\ crop_in.w > 0
    /\ crop_in.ratio = <<4, 3>>
    /\ crop_out.width < crop_in.w
    /\ crop_out.width > 0
    /\ crop_out.height = crop_in.h

\* C10 as stated: exactly one of the two crop dimensions equals the input
\* dimension (cw = w or ch = h, but not both).
CropExactlyOneEdge ==
    Returned => ((crop_out.width = crop_in.w) # (crop_out.height = crop_in.h))

\* C10 amended: at least one crop dimension equals the input dimension, and
\* both do exactly when the image already has the target ratio
\* (w * den = h * num); in every other case exactly one does.
CropOneEdgeUnlessExactRatio ==
    Returned =>
        /\ (crop_out.width = crop_in.w \/ crop_out.height = crop_in.h)
        /\ (crop_out.width = crop_in.w /\ crop_out.height = crop_in.h)
              <=> (crop_in.w * crop_in.ratio[2] = crop_in.h * crop_in.ratio[1])

\* a 3:2 image cropped to 3:2 keeps both edges
CropOneEdgeWitness ==
    /\ Returned
    /\ crop_in.ratio = <<3, 2>>
    /\ crop_in.w > 0
    /\ crop_in.w * 2 = crop_in.h * 3
    /\ crop_out.width = crop_in.w
    /\ crop_out.height = crop_in.h

\* C2: rounded_down is the floor of the pixel dimension divided by the DPI
\* (floor(width / 300), floor(height / 300)) and precise is width / 300 and
\* height / 300 rounded to 2 decimals.
PrintSizeFloor ==
    Done =>
        LET mp == result.max_print_size_inch
        IN  /\ mp.rounded_down.width = width \div DPI
            /\ mp.rounded_down.height = height \div DPI
            /\ 2 * Abs(mp.precise.width * DPI - 100 * width) <= DPI
            /\ 2 * Abs(mp.precise.height * DPI - 100 * height) <= DPI

\* C3 as stated: for height > 0, aspect_ratio_decimal equals width / height
\* within an absolute tolerance of 1e-9.
AspectDecimalWithinNano ==
    (Done /\ height > 0) =>
        Abs(result.aspect_ratio_decimal * height - 10000 * width) * 100000 <= height

\* C3 amended: for height > 0, aspect_ratio_decimal is width / height
\* rounded to 4 decimals, so it is within 0.00005 of width / height.
AspectDecimalWithinHalfUnit ==
    (Done /\ height > 0) =>
        2 * Abs(result.aspect_ratio_decimal * height - 10000 * width) <= height

\* a ratio that is not a multiple of 0.0001 and was rounded up
AspectDecimalWitness ==
    /\ Done
    /\ height > 0
    /\ result.aspect_ratio_decimal * height > 10000 * width

MetricEntries ==
    <<result.blur_variance, result.noise_level, result.brightness, result.contrast>>

\* C4: for every metric of the report, status is "Low" iff value < low,
\* "High" iff value > high and "Good" otherwise; value = low and value = high
\* give "Good".
StatusMatchesRange ==
    Done =>
        /\ result.blur_variance.value = blur_variance
        /\ result.blur_variance.range = blur_range
        /\ result.noise_level.value = contrast
        /\ result.noise_level.range = noise_range
        /\ result.brightness.value = brightness
        /\ result.brightness.range = brightness_range
        /\ result.contrast.value = contrast
        /\ result.contrast.range = contrast_range
        /\ \A i \in 1 .. 4 :
              LET e == MetricEntries[i]
              IN  /\ e.status \in {"Low", "Good", "High"}
                  /\ (e.status = "Low") <=> (e.value < e.range[1] * 100)
                  /\ (e.status = "High") <=> (e.value > e.range[2] * 100)
                  /\ (e.value = e.range[1] * 100 \/ e.value = e.range[2] * 100)
                        => e.status = "Good"

\* brightness exactly on its lower bound and contrast exactly on its upper
\* bound, both scored "Good"
StatusBoundaryWitness ==
    /\ Done
    /\ brightness = brightness_range[1] * 100
    /\ result.brightness.status = "Good"
    /\ contrast = contrast_range[2] * 100
    /\ result.contrast.status = "Good"
    /\ result.noise_level.status = "High"

\* |r[1]/r[2] - width/height| times height and the denominators of r and s
ExactDist(r, s) == Abs(r[1] * height - width * r[2]) * s[2]

\* the sign of (the double width / height) - width/height
ArgErrSign == FloatErr(width, height).c

\* r is strictly nearer than s to the double passed to closest_aspect_ratio.
\* The double is within 2^-52 * width/height of width/height, and two different
\* distances from width/height differ by at least 1 / (45 * height), so the
\* rounding of the division decides only between two ratios at the same
\* distance from width/height: the lower one is nearer iff the double is
\* below width/height.
ArgCloser(r, s) ==
    IF ExactDist(r, s) # ExactDist(s, r) THEN ExactDist(r, s) < ExactDist(s, r)
    ELSE IF r[1] * s[2] = s[1] * r[2] THEN FALSE
    ELSE IF r[1] * s[2] < s[1] * r[2] THEN ArgErrSign < 0
    ELSE ArgErrSign > 0

\* C5: closest_aspect_ratio returns a catalog ratio r whose distance
\* |r.num/r.den - aspect_ratio| from the value it is passed (the double
\* width / height) is minimal over the catalog, and among several ratios at
\* that minimal distance the first one in catalog order.
ClosestIsFirstMinimal ==
    Done =>
        \E i \in 1 .. Len(common_aspect_ratios) :
            /\ closest_ratio = common_aspect_ratios[i]
            /\ \A j \in 1 .. Len(common_aspect_ratios) :
                  /\ ~ArgCloser(common_aspect_ratios[j], common_aspect_ratios[i])
                  /\ j < i => ArgCloser(common_aspect_ratios[i], common_aspect_ratios[j])

\* |N/D - width/height| times D and height
SimplifiedOff == Abs(simplified.num * height - width * simplified.den)

\* |p/q - width/height| times q and height, for the p that makes it least
NearestOff(q) ==
    IF 2 * ((q * width) % height) < height
    THEN (q * width) % height
    ELSE height - ((q * width) % height)

NeedsLoop(s) == phase[s] \in {"queued", "ready"}

\* C8: while the analysis of one request is computing, any other pending
\* request can still be scheduled (the analysis does not occupy the loop).
OtherRequestsSchedulable ==
    \A r \in Requests : \A s \in Requests :
        (r # s /\ Computing(r) /\ NeedsLoop(s)) => ENABLED (Start(s) \/ Resume(s))

RuleOrder ==
    <<FlawBlur, FlawNoise, FlawDark, FlawBright, FlawLowContrast,
      FlawHighContrast, FlawDust, FlawNoisePattern>>

\* the condition of the i-th rule, from the statuses of the report
RuleHolds(i) ==
    CASE i = 1 -> result.blur_variance.status = "Low"
      [] i = 2 -> result.noise_level.status = "High"
      [] i = 3 -> result.brightness.status = "Low"
      [] i = 4 -> result.brightness.status = "High"
      [] i = 5 -> result.contrast.status = "Low"
      [] i = 6 -> result.contrast.status = "High"
      [] i = 7 -> spots_count > 10
      [] i = 8 -> result.noise_level.status = "High" /\ local_std_mean > 20 * 100

RuleIndex(text) == CHOOSE i \in 1 .. Len(RuleOrder) : RuleOrder[i] = text

\* C9: flaws_detected lists exactly the rules whose condition holds, in the
\* order blurry, high noise, underexposed, overexposed, low contrast, high
\* contrast, dust spots (count > 10), noise pattern (noise High and mean
\* local std > 20); it is empty when no condition holds.
FlawsAreFiredRulesInOrder ==
    Done =>
        LET flaws == result.flaws_detected
        IN  /\ \A k \in 1 .. Len(flaws) : \E i \in 1 .. Len(RuleOrder) : flaws[k] = RuleOrder[i]
            /\ \A i \in 1 .. Len(RuleOrder) :
                  RuleHolds(i) <=> \E k \in 1 .. Len(flaws) : flaws[k] = RuleOrder[i]
            /\ \A k \in 1 .. Len(flaws) : \A l \in 1 .. Len(flaws) :
                  k < l => RuleIndex(flaws[k]) < RuleIndex(flaws[l])
            /\ (\A i \in 1 .. Len(RuleOrder) : ~RuleHolds(i)) => flaws = << >>

\* 11 dust pixels, high noise with a local deviation just above 20
FlawsWitness ==
    /\ Done
    /\ spots_count = DUST_SPOT_THRESHOLD + 1
    /\ local_std_mean = 20 * 100 + 1
    /\ brightness > brightness_range[2] * 100
    /\ result.flaws_detected =
          <<FlawNoise, FlawBright, FlawHighContrast, FlawDust, FlawNoisePattern>>

====
